---- MODULE Spec2Model ----
(***************************************************************************)
(* ESP32 + MFRC522 attendance logger (esp_32_rfid_unicode_project.cpp).    *)
(*                                                                         *)
(* Two tasks share the program state: the Arduino loop task, which polls   *)
(* the reader and runs processUID (lookup, logAttendance, broadcastScan),  *)
(* and the task of the asynchronous web server, which runs handleAddUser   *)
(* (writeUserToFS, then the cache update).  A String is the sequence of    *)
(* its characters, each with the number of bytes UTF-8 gives it; a file is *)
(* a sequence of lines or a JSON record.                                   *)
(***************************************************************************)
EXTENDS Integers, Sequences, FiniteSets, TLC

\* ------------------------------------------------------------------ bounds
\* card reads, management requests and clock steps in one run
MaxEvents == 3
\* characters in the long display name
LongNameLen == 63

\* -------------------------------------------------------------- constants
\* DynamicJsonDocument capacities (bytes) and the pool cost of one member
WriteDocCapacity == 256
BroadcastDocCapacity == 256
SlotSize == 16
\* millis() is a 32-bit millisecond counter: millis()/1000 runs 0..4294967
SecondsWrap == 4294968

\* ---------------------------------------------------------------- strings
\* a character outside the basic plane (such as U+1F600) takes 4 bytes, the
\* byte-order mark U+FEFF takes 3 (EF BB BF), an ASCII character 1
EMOJI == "U+1F600"
BOM_CHAR == "U+FEFF"

\* String::length(): the number of bytes
ByteLength(s) ==
  Len(s) + 3 * Cardinality({i \in 1..Len(s) : s[i] = EMOJI})
         + 2 * Cardinality({i \in 1..Len(s) : s[i] = BOM_CHAR})

Repeat(c, n) == [i \in 1..n |-> c]

EndsWith(s, suffix) ==
  /\ Len(s) >= Len(suffix)
  /\ SubSeq(s, Len(s) - Len(suffix) + 1, Len(s)) = suffix

DecDigits == <<"0", "1", "2", "3", "4", "5", "6", "7", "8", "9">>
HexDigits == <<"0", "1", "2", "3", "4", "5", "6", "7", "8", "9",
               "A", "B", "C", "D", "E", "F">>

\* String(unsigned long): decimal text
RECURSIVE StringOfULong(_)
StringOfULong(n) ==
  IF n < 10 THEN <<DecDigits[n + 1]>>
  ELSE StringOfULong(n \div 10) \o <<DecDigits[(n % 10) + 1]>>

QUOTE == "\""
COMMA == ","
USERS_DIR == <<"/", "u", "s", "e", "r", "s">>
JSON_EXT == <<".", "j", "s", "o", "n">>
UNKNOWN == <<"(", "u", "n", "k", "n", "o", "w", "n", ")">>
ACCEPTED == <<"a", "c", "c", "e", "p", "t", "e", "d">>
DENIED == <<"d", "e", "n", "i", "e", "d">>
RFID == <<"r", "f", "i", "d">>
NULL_TEXT == <<"n", "u", "l", "l">>
BOM == <<BOM_CHAR>>
HEADER == <<"t", "i", "m", "e", "s", "t", "a", "m", "p", ",", "u", "i", "d", ",",
            "n", "a", "m", "e", ",", "m", "e", "t", "h", "o", "d">>

\* ------------------------------------------------------------- JSON values
\* A member of a JsonDocument: a string, or null (absent, or not stored).
JStr(s) == [t |-> "str", s |-> s]
JNull == [t |-> "null", s |-> <<>>]

\* JsonVariant::as<String>(): the string, else the JSON text of the value
AsString(v) == IF v.t = "str" THEN v.s ELSE NULL_TEXT

\* ------------------------------------------------------------------- maps
EmptyMap == [k \in {} |-> <<>>]
MapPut(m, k, v) == [x \in (DOMAIN m) \cup {k} |-> IF x = k THEN v ELSE m[x]]

\* ------------------------------------------------------------ JsonDocument
\* A fixed-capacity DynamicJsonDocument: every member takes one slot, and a
\* String value is copied into the pool with its terminator.  A member whose
\* slot does not fit is not added; a value whose copy does not fit is null.
NewDoc(capacity) == [cap |-> capacity, used |-> 0, members |-> EmptyMap]

DocSetString(doc, key, str) ==
  IF doc.used + SlotSize > doc.cap THEN doc
  ELSE IF doc.used + SlotSize + ByteLength(str) + 1 > doc.cap
       THEN [doc EXCEPT !.used = @ + SlotSize,
                        !.members = MapPut(@, key, JNull)]
       ELSE [doc EXCEPT !.used = @ + SlotSize + ByteLength(str) + 1,
                        !.members = MapPut(@, key, JStr(str))]

DocGet(doc, key) == IF key \in DOMAIN doc.members THEN doc.members[key] ELSE JNull

\* ------------------------------------------------------- Identifier codec
\* uidFromMfrc: two uppercase hex digits per byte ("%02X"), in order
RECURSIVE uidFromMfrc(_)
uidFromMfrc(bytes) ==
  IF bytes = <<>> THEN <<>>
  ELSE <<HexDigits[(bytes[1] \div 16) + 1], HexDigits[(bytes[1] % 16) + 1]>>
       \o uidFromMfrc(Tail(bytes))

\* ------------------------------------------------------- Attendance ledger
\* A ledger file: whether it exists, and its lines.  Each line carries, beside
\* its text, the number of the scan that wrote it (0 for the header).
NoLedger == [exists |-> FALSE, lines |-> <<>>]
HeaderLine == [text |-> BOM \o HEADER, scan |-> 0]

\* a creation that runs whether or not the file is there, and so truncates it
ensureAttendanceCSVAlways(l, createOk) ==
  IF ~createOk THEN l ELSE [exists |-> TRUE, lines |-> <<HeaderLine>>]

\* ensureAttendanceCSV: create the file with BOM and header if it is absent
ensureAttendanceCSV(l, createOk) ==
  IF ~l.exists
  THEN IF ~createOk THEN l
       ELSE [exists |-> TRUE, lines |-> <<HeaderLine>>]
  ELSE l

\* csvEsc: wrap in quotes, double every internal quote.  The loop of lines
\* 113-117 emits, for each character in turn, the character or two quotes; the
\* text is split in halves here to keep the evaluation shallow.
RECURSIVE csvEscBody(_)
csvEscBody(s) ==
  IF s = <<>> THEN <<>>
  ELSE IF Len(s) = 1 THEN (IF s[1] = QUOTE THEN <<QUOTE, QUOTE>> ELSE s)
  ELSE LET h == Len(s) \div 2
       IN csvEscBody(SubSeq(s, 1, h)) \o csvEscBody(SubSeq(s, h + 1, Len(s)))

\* an escape that wraps the text in quotes and leaves inner quotes single
csvEscNoDoubling(s) == <<QUOTE>> \o s \o <<QUOTE>>

csvEsc(s) == <<QUOTE>> \o csvEscBody(s) \o <<QUOTE>>

\* nowTimestamp: millis()/1000 as decimal text
nowTimestamp(seconds) == StringOfULong(seconds)

\* the line logAttendance builds
AttendanceLine(ts, uid, name, method) ==
  ts \o <<COMMA>> \o csvEsc(uid) \o <<COMMA>> \o csvEsc(name) \o <<COMMA>> \o csvEsc(method)

\* a write that lands at the start of the file instead of its end
AppendLineAtStart(l, text, scan) ==
  [exists |-> TRUE, lines |-> <<[text |-> text, scan |-> scan]>> \o l.lines]

\* File.println on a file opened with FILE_APPEND (the open creates the file)
AppendLine(l, text, scan) ==
  [exists |-> TRUE, lines |-> Append(l.lines, [text |-> text, scan |-> scan])]

\* the ledger opened with FILE_WRITE instead of FILE_APPEND: the line replaces
\* what the file held
logAttendanceTruncating(l, uid, name, method, seconds, scan, createOk, appendOk) ==
  IF ~appendOk THEN ensureAttendanceCSV(l, createOk)
  ELSE AppendLine(NoLedger, AttendanceLine(nowTimestamp(seconds), uid, name, method), scan)

\* logAttendance on the SPIFFS ledger.  (The copy of the line that lines 141-145
\* append to the SD card goes to a second file nothing reads: not modelled.)
logAttendance(l, uid, name, method, seconds, scan, createOk, appendOk) ==
  LET l1 == ensureAttendanceCSV(l, createOk)
  IN IF ~appendOk THEN l1
     ELSE AppendLine(l1, AttendanceLine(nowTimestamp(seconds), uid, name, method), scan)

\* ------------------------------------------------------ User directory store
UserPath(uid) == USERS_DIR \o <<"/">> \o uid \o JSON_EXT

JsonFile(uidField, nameField) == [kind |-> "json", uid |-> uidField, name |-> nameField]
EmptyFile == [kind |-> "empty", uid |-> JNull, name |-> JNull]
PartialFile == [kind |-> "partial", uid |-> JNull, name |-> JNull]

\* the document writeUserToFS serializes
UserDoc(uid, utf8name) ==
  DocSetString(DocSetString(NewDoc(WriteDocCapacity), "uid", uid), "name", utf8name)

WriteOutcomes == {"openfail", "zero", "short", "ok"}

\* writeUserToFS: open with FILE_WRITE (truncates), serializeJson, close.
\*   openfail: the open fails;  zero: serializeJson writes nothing;
\*   short: it writes part of the text;  ok: it writes all of it.
writeUserToFS(files, uid, utf8name, outcome) ==
  LET path == UserPath(uid)
      doc == UserDoc(uid, utf8name)
  IN CASE outcome = "openfail" -> [files |-> files, ok |-> FALSE]
       [] outcome = "zero" -> [files |-> MapPut(files, path, EmptyFile), ok |-> FALSE]
       [] outcome = "short" -> [files |-> MapPut(files, path, PartialFile), ok |-> TRUE]
       [] OTHER -> [files |-> MapPut(files, path,
                                     JsonFile(DocGet(doc, "uid"), DocGet(doc, "name"))),
                    ok |-> TRUE]

\* loadUsers: clear the cache, then one entry per *.json file that parses
RECURSIVE loadUsersFrom(_, _, _)
loadUsersFrom(files, paths, cache) ==
  IF paths = {} THEN cache
  ELSE LET p == CHOOSE x \in paths : TRUE
           f == files[p]
           next == IF EndsWith(p, JSON_EXT) /\ f.kind = "json"
                   THEN MapPut(cache, AsString(f.uid), AsString(f.name))
                   ELSE cache
       IN loadUsersFrom(files, paths \ {p}, next)

loadUsers(files) == loadUsersFrom(files, DOMAIN files, EmptyMap)

\* what loadUsers prints to Serial: "[USER] Loaded: uid -> name" (line 190) for
\* each file it stores; a file that does not parse prints nothing, and the
\* "[WARN] No users directory" of line 171 needs the open of /users to fail,
\* which ensureSPIFFS's mkdir rules out here
loadUsersSerial(files) ==
  {[tag |-> "USER", uid |-> AsString(files[p].uid), name |-> AsString(files[p].name)] :
     p \in {x \in DOMAIN files : EndsWith(x, JSON_EXT) /\ files[x].kind = "json"}}

\* ---------------------------------------------------------- Event broadcaster
\* the message broadcastScan serializes and hands to ws.textAll
ScanDoc(ts, uid, name, result) ==
  DocSetString(
    DocSetString(
      DocSetString(
        DocSetString(NewDoc(BroadcastDocCapacity), "timestamp", ts),
        "uid", uid),
      "name", name),
    "result", result)

broadcastScan(seconds, uid, name, result, scan) ==
  LET doc == ScanDoc(nowTimestamp(seconds), uid, name, result)
  IN [timestamp |-> DocGet(doc, "timestamp"), uid |-> DocGet(doc, "uid"),
      name |-> DocGet(doc, "name"), result |-> DocGet(doc, "result"),
      scan |-> scan]

\* ------------------------------------------------------------ Scan reconciler
\* processUID, lines 312-321: the lookup in userCache
processUIDLookup(cache, uid) ==
  IF uid \in DOMAIN cache
  THEN [name |-> cache[uid], result |-> ACCEPTED]
  ELSE [name |-> UNKNOWN, result |-> DENIED]

\* --------------------------------------------------------- Management endpoint
\* handleAddUser, line 251: the validation of the two fields
missingFields(uid, name) == ByteLength(uid) = 0 \/ ByteLength(name) = 0

\* a handler that does not look at what writeUserToFS returned
saveFailedIgnored(w) == FALSE

\* handleAddUser, line 256: the outcome of writeUserToFS decides a 500
saveFailed(w) == ~w.ok

\* handleAddUser, line 260: userCache[uid] = name
userCacheStore(cache, uid, name) == MapPut(cache, uid, name)

\* std::map::find in the loop task while the web task is between writeUserToFS
\* and the response, where it runs userCache[uid] = name unsynchronised: the
\* lookup sees the map before the store, the map after it, or misses the key.
racedLookups(cache, uid, storeUid, storeName) ==
  {processUIDLookup(cache, uid),
   processUIDLookup(userCacheStore(cache, storeUid, storeName), uid),
   [name |-> UNKNOWN, result |-> DENIED]}

\* ------------------------------------------------------------------- inputs
ADA == <<"A", "d", "a">>
JOHN == <<"J", "o", QUOTE, "h", "n">>
LONG_NAME == Repeat(EMOJI, LongNameLen)
UID_ADA == <<"0", "4", "A", "1">>
UID_FF == <<"F", "F", "F", "F">>
UID_LOWER == <<"0", "4", "a", "1">>

\* raw identifier bytes a card read may yield
Badges == {<<>>, <<4, 161>>, <<255, 255>>}

\* bodies of POST /adduser: not JSON, or an object whose uid and name are a
\* string or missing
BadJson == [bad |-> TRUE, uid |-> JNull, name |-> JNull]
Request(u, n) == [bad |-> FALSE, uid |-> u, name |-> n]
Requests ==
  {BadJson,
   Request(JNull, JStr(ADA)), Request(JStr(UID_ADA), JStr(<<>>)),
   Request(JStr(UID_ADA), JStr(JOHN)), Request(JStr(UID_ADA), JStr(LONG_NAME)),
   Request(JStr(UID_LOWER), JStr(ADA))}
NoRequest == [bad |-> TRUE, uid |-> JNull, name |-> JStr(<<>>)]
NoResponse == [bad |-> TRUE, uid |-> JNull, name |-> JStr(<<>>), code |-> 0]

\* the user files found at boot
InitialDisks ==
  {MapPut(MapPut(EmptyMap, UserPath(UID_ADA), JsonFile(JStr(UID_ADA), JStr(ADA))),
          UserPath(UID_FF), PartialFile)}

\* seconds by which the clock may advance in one step
TickSteps == {1, SecondsWrap - 1}

\* -------------------------------------------------------------------- state
VARIABLES
  userCache,   \* std::map<String,String> userCache
  userFiles,   \* SPIFFS: path -> content of the files under /users
  ledger,      \* SPIFFS: /attendance.csv
  broadcasts,  \* the messages handed to ws.textAll, in order
  uptime,      \* millis() / 1000
  events,      \* card reads, requests and clock steps so far
  pc,          \* loop task: "idle", "log", "broadcast"
  pUid, pName, pResult,   \* processUID: uid, name, result
  scans,       \* history: per card read, the uid, whether userCache held it and
               \* with which name, whether the web task was storing, what
               \* processUID resolved, whether the line was appended, and the
               \* millis()/1000 at which logAttendance ran
  hpc,         \* web task: "idle", "store"
  hReq,        \* handleAddUser: the request being handled
  hSave,       \* handleAddUser: what writeUserToFS returned for the last request
               \* taken up ("ok", "failed"; "none" when it was not called)
  response,    \* the last response sent, with its request
  serial       \* the lines loadUsers printed to Serial

vars == <<userCache, userFiles, ledger, broadcasts, uptime, events,
          pc, pUid, pName, pResult, scans, hpc, hReq, hSave, response, serial>>

loopVars == <<pc, pUid, pName, pResult, scans>>
webVars == <<hpc, hReq, hSave, response>>

\* setup(): ensureAttendanceCSV (the creation may fail), then loadUsers
Init ==
  /\ userFiles \in InitialDisks
  /\ userCache = loadUsers(userFiles)
  /\ serial = loadUsersSerial(userFiles)
  /\ \E createOk \in BOOLEAN : ledger = ensureAttendanceCSV(NoLedger, createOk)
  /\ broadcasts = <<>>
  /\ uptime = 1
  /\ events = 0
  /\ pc = "idle" /\ pUid = <<>> /\ pName = <<>> /\ pResult = <<>>
  /\ scans = <<>>
  /\ hpc = "idle" /\ hReq = NoRequest /\ hSave = "none"
  /\ response = NoResponse

\* ------------------------------------------------------------------ actions
\* loop(), lines 392-394, and processUID up to the feedback: a card is read
ScanCard(bytes) ==
  /\ pc = "idle"
  /\ events < MaxEvents
  /\ events' = events + 1
  /\ LET uid == uidFromMfrc(bytes)
         known == uid \in DOMAIN userCache
         lookups == IF hpc = "store"
                    THEN racedLookups(userCache, uid,
                                      AsString(hReq.uid), AsString(hReq.name))
                    ELSE {processUIDLookup(userCache, uid)}
     IN \E r \in lookups :
          /\ pUid' = uid
          /\ pName' = r.name
          /\ pResult' = r.result
          /\ scans' = Append(scans, [uid |-> uid, known |-> known,
                                     cached |-> IF known THEN userCache[uid] ELSE <<>>,
                                     raced |-> hpc = "store",
                                     name |-> r.name, result |-> r.result,
                                     appended |-> "pending", at |-> 0])
  /\ pc' = "log"
  /\ UNCHANGED <<serial, userCache, userFiles, ledger, broadcasts,
                 uptime, webVars>>

\* processUID, line 322: logAttendance(uid, name, "rfid")
LogAttendance(createOk, appendOk) ==
  /\ pc = "log"
  /\ ledger' = logAttendance(ledger, pUid, pName, RFID, uptime, Len(scans),
                             createOk, appendOk)
  /\ scans' = [scans EXCEPT ![Len(scans)].appended = IF appendOk THEN "yes" ELSE "no",
                            ![Len(scans)].at = uptime]
  /\ pc' = "broadcast"
  /\ UNCHANGED <<serial, userCache, userFiles, broadcasts, uptime, events,
                 pUid, pName, pResult, webVars>>

\* processUID, line 323: broadcastScan(uid, name, result); then back to loop()
BroadcastScan ==
  /\ pc = "broadcast"
  /\ broadcasts' = Append(broadcasts,
                          broadcastScan(uptime, pUid, pName, pResult, Len(scans)))
  /\ pc' = "idle"
  /\ UNCHANGED <<serial, userCache, userFiles, ledger, uptime, events,
                 pUid, pName, pResult, scans, webVars>>

Respond(req, code) ==
  response' = [bad |-> req.bad, uid |-> req.uid, name |-> req.name, code |-> code]

\* handleAddUser, lines 243-259: parse, validate, writeUserToFS
HandleAddUser(req, outcome) ==
  /\ hpc = "idle"
  /\ events < MaxEvents
  /\ events' = events + 1
  /\ LET uid == AsString(req.uid)
         name == AsString(req.name)
         w == writeUserToFS(userFiles, uid, name, outcome)
     IN IF req.bad \/ missingFields(uid, name)
        THEN /\ Respond(req, 400)
             /\ hSave' = "none"
             /\ UNCHANGED <<userFiles, hpc, hReq>>
        ELSE /\ userFiles' = w.files
             /\ hSave' = IF w.ok THEN "ok" ELSE "failed"
             /\ IF saveFailed(w)
                THEN /\ Respond(req, 500)
                     /\ UNCHANGED <<hpc, hReq>>
                ELSE /\ hpc' = "store"
                     /\ hReq' = req
                     /\ UNCHANGED response
  /\ UNCHANGED <<serial, userCache, ledger, broadcasts, uptime, loopVars>>

\* handleAddUser, lines 260-261: the cache entry, then the 200 response
StoreUser ==
  /\ hpc = "store"
  /\ userCache' = userCacheStore(userCache, AsString(hReq.uid), AsString(hReq.name))
  /\ Respond(hReq, 200)
  /\ hpc' = "idle"
  /\ hReq' = NoRequest
  /\ UNCHANGED <<serial, hSave, userFiles, ledger, broadcasts, uptime, events,
                 loopVars>>

\* the millisecond counter advances (and wraps as a 32-bit counter does).  Only
\* logAttendance and broadcastScan read it, so it steps while processUID runs:
\* the time spent idle shows as a step before the next line is written.
Tick(d) ==
  /\ pc \in {"log", "broadcast"}
  /\ events < MaxEvents
  /\ events' = events + 1
  /\ uptime' = (uptime + d) % SecondsWrap
  /\ UNCHANGED <<serial, userCache, userFiles, ledger, broadcasts,
                 loopVars, webVars>>

Next ==
  \/ \E bytes \in Badges : ScanCard(bytes)
  \/ \E createOk \in BOOLEAN, appendOk \in BOOLEAN : LogAttendance(createOk, appendOk)
  \/ BroadcastScan
  \/ \E req \in Requests, outcome \in WriteOutcomes : HandleAddUser(req, outcome)
  \/ StoreUser
  \/ \E d \in TickSteps : Tick(d)

Spec == Init /\ [][Next]_vars

\* ---- the scan pipeline on its own ----
\* Runs in which the management requests come before the card reads: the
\* program has booted, has handled at most one request whose save succeeded,
\* and from then on only loop() runs.
InitAfterRequest ==
  /\ \E disk \in InitialDisks, changed \in BOOLEAN, req \in Requests :
       LET uid == AsString(req.uid)
           name == AsString(req.name)
           w == writeUserToFS(disk, uid, name, "ok")
       IN IF changed /\ ~req.bad /\ ~missingFields(uid, name)
          THEN /\ userFiles = w.files
               /\ userCache = userCacheStore(loadUsers(disk), uid, name)
               /\ serial = loadUsersSerial(disk)
               /\ hSave = "ok"
               /\ response = [bad |-> req.bad, uid |-> req.uid,
                              name |-> req.name, code |-> 200]
          ELSE /\ userFiles = disk
               /\ userCache = loadUsers(disk)
               /\ serial = loadUsersSerial(disk)
               /\ hSave = "none"
               /\ response = NoResponse
  /\ \E createOk \in BOOLEAN : ledger = ensureAttendanceCSV(NoLedger, createOk)
  /\ broadcasts = <<>>
  /\ uptime = 1
  /\ events = 0
  /\ pc = "idle" /\ pUid = <<>> /\ pName = <<>> /\ pResult = <<>>
  /\ scans = <<>>
  /\ hpc = "idle" /\ hReq = NoRequest

NextScan ==
  \/ \E bytes \in Badges : ScanCard(bytes)
  \/ \E createOk \in BOOLEAN, appendOk \in BOOLEAN : LogAttendance(createOk, appendOk)
  \/ BroadcastScan
  \/ \E d \in TickSteps : Tick(d)

ScanSpec == InitAfterRequest /\ [][NextScan]_vars

\* ================================================================== claims
\* ---- reading a ledger line back under standard CSV quoting (RFC 4180) ----
QuotesBefore(s, i) == Cardinality({j \in 1..(i - 1) : s[j] = QUOTE})

\* a comma separates two fields when it stands outside quotes
CsvSeparators(s) ==
  {i \in 1..Len(s) : s[i] = COMMA /\ QuotesBefore(s, i) % 2 = 0}

CsvFieldCount(s) == Cardinality(CsvSeparators(s)) + 1

\* the fields of the line: the texts between its start, the separators in
\* order, and its end
CsvRawFields(s) ==
  LET seps == CsvSeparators(s)
      n == Cardinality(seps)
      cut == [k \in 0..(n + 1) |->
                IF k = 0 THEN 0
                ELSE IF k = n + 1 THEN Len(s) + 1
                ELSE CHOOSE i \in seps : Cardinality({j \in seps : j < i}) = k - 1]
  IN [k \in 1..(n + 1) |-> SubSeq(s, cut[k - 1] + 1, cut[k] - 1)]

CsvRawField(s, k) == CsvRawFields(s)[k]

\* inside a quoted field, two quotes stand for one
RECURSIVE CsvUndouble(_)
CsvUndouble(t) ==
  LET quotes == {i \in 1..Len(t) : t[i] = QUOTE}
  IN IF quotes = {} THEN t
     ELSE LET p == CHOOSE i \in quotes : \A j \in quotes : i <= j
              rest == IF p < Len(t) /\ t[p + 1] = QUOTE THEN p + 2 ELSE p + 1
          IN SubSeq(t, 1, p) \o CsvUndouble(SubSeq(t, rest, Len(t)))

CsvIsQuoted(f) == Len(f) >= 2 /\ f[1] = QUOTE /\ f[Len(f)] = QUOTE

CsvField(s, k) ==
  LET f == CsvRawField(s, k)
  IN IF CsvIsQuoted(f) THEN CsvUndouble(SubSeq(f, 2, Len(f) - 1)) ELSE f

\* ---- the lines and messages of one scan ----
RowsOf(n) == {i \in 1..Len(ledger.lines) : ledger.lines[i].scan = n}
BroadcastsOf(n) == {i \in 1..Len(broadcasts) : broadcasts[i].scan = n}
ScanDone(n) == n < Len(scans) \/ (n = Len(scans) /\ pc = "idle")

\* what the lookup must give for scan n, from the cache as it was at the scan
ExpectedName(n) == IF scans[n].known THEN scans[n].cached ELSE UNKNOWN
ExpectedResult(n) == IF scans[n].known THEN ACCEPTED ELSE DENIED

\* C1: a non-empty identifier that is a key of userCache at the scan is accepted
\* with exactly the cached name, any other is denied with "(unknown)", and the
\* ledger line and the broadcast of the scan carry that name and outcome.
\* (Stated for the scans that do not overlap a cache update of the web task.)
C1_ResolvedNameAndOutcome ==
  \A n \in 1..Len(scans) :
    (scans[n].uid # <<>> /\ ~scans[n].raced) =>
      /\ scans[n].name = ExpectedName(n)
      /\ scans[n].result = ExpectedResult(n)
      /\ \A i \in RowsOf(n) : CsvField(ledger.lines[i].text, 3) = ExpectedName(n)
      /\ \A i \in BroadcastsOf(n) :
           /\ broadcasts[i].name = JStr(ExpectedName(n))
           /\ broadcasts[i].result = JStr(ExpectedResult(n))

\* C2: a scan whose identifier is empty appends no ledger line and emits no
\* broadcast.
C2_EmptyScanRejected ==
  \A n \in 1..Len(scans) :
    scans[n].uid = <<>> => (RowsOf(n) = {} /\ BroadcastsOf(n) = {})

\* C3: a finished scan of a non-empty identifier whose append succeeded has
\* exactly one ledger line and exactly one broadcast, both with the identifier
\* and the resolved name; no scan has two lines or two broadcasts.
C3_OneRowOneBroadcast ==
  \A n \in 1..Len(scans) :
    /\ Cardinality(RowsOf(n)) <= 1
    /\ Cardinality(BroadcastsOf(n)) <= 1
    /\ (ScanDone(n) /\ scans[n].uid # <<>> /\ scans[n].appended = "yes") =>
         /\ Cardinality(RowsOf(n)) = 1
         /\ Cardinality(BroadcastsOf(n)) = 1
         /\ \A i \in RowsOf(n) :
              /\ CsvField(ledger.lines[i].text, 2) = scans[n].uid
              /\ CsvField(ledger.lines[i].text, 3) = scans[n].name
         /\ \A i \in BroadcastsOf(n) :
              /\ broadcasts[i].uid = JStr(scans[n].uid)
              /\ broadcasts[i].name = JStr(scans[n].name)

\* C4: a scan whose append failed leaves no ledger line (no retry), and once
\* the scan is finished it has exactly one broadcast, with the identifier, the
\* name and the outcome the scan resolved.
C4_BroadcastDespiteAppendFailure ==
  \A n \in 1..Len(scans) :
    (scans[n].uid # <<>> /\ scans[n].appended = "no") =>
      /\ RowsOf(n) = {}
      /\ ScanDone(n) =>
           /\ Cardinality(BroadcastsOf(n)) = 1
           /\ \A i \in BroadcastsOf(n) :
                /\ broadcasts[i].uid = JStr(scans[n].uid)
                /\ broadcasts[i].name = JStr(scans[n].name)
                /\ broadcasts[i].result = JStr(scans[n].result)

\* C5: the ledger lines stand in the order of the scans, the broadcasts were
\* emitted in the order of the scans, and a scan's line is written only after
\* the broadcast of every earlier scan.
C5_ScanOrder ==
  /\ \A i, j \in 1..Len(ledger.lines) :
       i < j => ledger.lines[i].scan < ledger.lines[j].scan
  /\ \A i, j \in 1..Len(broadcasts) :
       i < j => broadcasts[i].scan < broadcasts[j].scan
  /\ \A i \in 1..Len(ledger.lines) :
       \A m \in 1..(ledger.lines[i].scan - 1) : BroadcastsOf(m) # {}

\* two scans are finished and both have their line and their broadcast
C5_Witness ==
  /\ Len(scans) = 2 /\ pc = "idle"
  /\ RowsOf(1) # {} /\ RowsOf(2) # {}
  /\ BroadcastsOf(1) # {} /\ BroadcastsOf(2) # {}

\* ---- steps of the management endpoint ----
\* a step in which handleAddUser takes up a request
HandlerStep == hpc = "idle" /\ events' = events + 1 /\ pc' = pc /\ uptime' = uptime
\* a step in which handleAddUser sends its 200 response
SuccessStep == hpc = "store" /\ hpc' = "idle"
\* a step in which a card is read and looked up
LookupStep == Len(scans') = Len(scans) + 1

Responded(req, code) ==
  [bad |-> req.bad, uid |-> req.uid, name |-> req.name, code |-> code]

FieldMissingOrEmpty(v) == v = JNull \/ v = JStr(<<>>)
\* the request reaches writeUserToFS
Saves(req) == ~req.bad /\ ~missingFields(AsString(req.uid), AsString(req.name))
SaveOf(req, outcome) ==
  writeUserToFS(userFiles, AsString(req.uid), AsString(req.name), outcome)

\* C6: a request whose uid or name is missing or empty is answered with 400 and
\* changes neither userCache nor any user file.
C6_InvalidRequestRejected ==
  [][HandlerStep =>
       \A req \in Requests, outcome \in WriteOutcomes :
         ((FieldMissingOrEmpty(req.uid) \/ FieldMissingOrEmpty(req.name))
            /\ HandleAddUser(req, outcome)) =>
           /\ response' = Responded(req, 400)
           /\ UNCHANGED <<userCache, userFiles>>]_vars

\* C7: a request with non-empty uid and name whose writeUserToFS succeeds goes
\* on to the 200 response; when the 200 is sent userCache maps the uid to the
\* submitted name and every other entry is as before; and a card with that
\* uid read after the 200 is accepted with that name (or with the name of a
\* later request for the uid that is being stored).
C7_SuccessfulUpsertCached ==
  [][/\ HandlerStep =>
          \A req \in Requests, outcome \in WriteOutcomes :
            (~FieldMissingOrEmpty(req.uid) /\ ~FieldMissingOrEmpty(req.name)
               /\ HandleAddUser(req, outcome) /\ SaveOf(req, outcome).ok) =>
              (hpc' = "store" /\ hReq' = req)
     /\ SuccessStep =>
          /\ response' = Responded(hReq, 200)
          /\ DOMAIN userCache' = DOMAIN userCache \cup {AsString(hReq.uid)}
          /\ userCache'[AsString(hReq.uid)] = AsString(hReq.name)
          /\ \A k \in DOMAIN userCache \ {AsString(hReq.uid)} :
               userCache'[k] = userCache[k]
     /\ (LookupStep /\ response.code = 200
           /\ scans'[Len(scans')].uid = AsString(response.uid)) =>
          /\ scans'[Len(scans')].result = ACCEPTED
          /\ \/ scans'[Len(scans')].name = AsString(response.name)
             \/ /\ hpc = "store"
                /\ AsString(hReq.uid) = AsString(response.uid)
                /\ scans'[Len(scans')].name = AsString(hReq.name)]_vars

\* C8: when writeUserToFS reports failure the request is answered with 500 and
\* userCache is what it was before the request.
C8_FailedSaveLeavesCache ==
  [][(HandlerStep /\ hSave' = "failed") =>
       /\ response'.code = 500
       /\ hpc' = "idle"
       /\ userCache' = userCache]_vars

\* the save of a new name for a cached uid has failed and was answered with
\* 500, and the cache still holds the old name
C8_Witness ==
  /\ hSave = "failed"
  /\ response = Responded(Request(JStr(UID_ADA), JStr(JOHN)), 500)
  /\ hpc = "idle"
  /\ UID_ADA \in DOMAIN userCache
  /\ userCache[UID_ADA] = ADA

\* C9: after writeUserToFS either it returned success and the file of the uid
\* holds the complete new record, or it returned failure and the files are as
\* they were: no truncated or empty record is left.
C9_UpsertAtomic ==
  [][HandlerStep =>
       \A req \in Requests, outcome \in WriteOutcomes :
         (Saves(req) /\ HandleAddUser(req, outcome)) =>
           LET uid == AsString(req.uid)
               name == AsString(req.name)
           IN \/ /\ SaveOf(req, outcome).ok
                 /\ UserPath(uid) \in DOMAIN userFiles'
                 /\ userFiles'[UserPath(uid)] = JsonFile(JStr(uid), JStr(name))
              \/ /\ ~SaveOf(req, outcome).ok
                 /\ userFiles' = userFiles]_vars

\* C10: after a successful writeUserToFS(uid, name), loadUsers builds a cache
\* that maps uid to exactly name (so after successive writes, to the last one).
C10_RoundTrip ==
  [][HandlerStep =>
       \A req \in Requests, outcome \in WriteOutcomes :
         (Saves(req) /\ HandleAddUser(req, outcome) /\ SaveOf(req, outcome).ok) =>
           /\ AsString(req.uid) \in DOMAIN loadUsers(userFiles')
           /\ loadUsers(userFiles')[AsString(req.uid)] = AsString(req.name)]_vars

\* ---- storage and ledger invariants ----
\* C11: whenever no management request is between its save and its response,
\* userCache is the cache loadUsers would build from the user files.
C11_CacheMatchesStorage ==
  hpc = "idle" => userCache = loadUsers(userFiles)

EventRows == {i \in 1..Len(ledger.lines) : ledger.lines[i].scan > 0}
HeaderRows == {i \in 1..Len(ledger.lines) : ledger.lines[i] = HeaderLine}
IsPrefix(s, t) == Len(s) <= Len(t) /\ SubSeq(t, 1, Len(s)) = s

\* C12: the ledger only grows at its end: every step leaves the lines the file
\* held in place and in order, and an existing file stays.
C12_LedgerAppendOnly ==
  [][/\ ledger.exists => ledger'.exists
     /\ IsPrefix(ledger.lines, ledger'.lines)]_vars

\* two scans have appended their lines below the header
C12_Witness ==
  /\ Len(ledger.lines) = 3
  /\ ledger.lines[1] = HeaderLine
  /\ ledger.lines[2].scan = 1 /\ ledger.lines[3].scan = 2

\* C13: a ledger that holds an event line begins with the byte-order mark and
\* the header line, and holds them once.
C13_HeaderBeforeRows ==
  (ledger.exists /\ EventRows # {}) =>
    /\ ledger.lines[1] = HeaderLine
    /\ Cardinality(HeaderRows) = 1

\* C14: ensureAttendanceCSV writes the mark and the header only when the
\* ledger is absent (and then the file is exactly these), leaves an existing
\* ledger as it is however often it is called, and a logAttendance on an
\* existing ledger leaves the file as it was plus at most the line appended.
C14_EnsureIdempotent ==
  [][/\ \A c1 \in BOOLEAN, c2 \in BOOLEAN :
          LET once == ensureAttendanceCSV(ledger, c1)
          IN /\ ledger.exists => once = ledger
             /\ (~ledger.exists /\ c1) =>
                  once = [exists |-> TRUE, lines |-> <<HeaderLine>>]
             /\ (~ledger.exists /\ ~c1) => once = ledger
             /\ once.exists => ensureAttendanceCSV(once, c2) = once
     /\ (pc = "log" /\ pc' = "broadcast" /\ ledger.exists) =>
          \/ ledger' = ledger
          \/ /\ Len(ledger'.lines) = Len(ledger.lines) + 1
             /\ IsPrefix(ledger.lines, ledger'.lines)
             /\ ledger'.lines[Len(ledger'.lines)].scan = Len(scans)]_vars

\* the second scan has run logAttendance on the ledger the first scan wrote to
C14_Witness ==
  /\ Len(scans) = 2 /\ pc = "broadcast"
  /\ scans[1].appended = "yes" /\ scans[2].appended = "yes"
  /\ Cardinality(HeaderRows) = 1
  /\ Cardinality(EventRows) = 2

\* ---- loading the user files ----
Parses(f) == f.kind = "json"

\* C15: at startup every user file that parses has its entry in userCache,
\* a file that does not parse adds no entry and is reported as a warning, and
\* loadUsers runs to its end (the program is running).
C15_CorruptRecordsTolerated ==
  events = 0 =>
    /\ DOMAIN userCache =
         {AsString(userFiles[p].uid) : p \in {x \in DOMAIN userFiles : Parses(userFiles[x])}}
    /\ \A p \in DOMAIN userFiles :
         IF Parses(userFiles[p])
         THEN userCache[AsString(userFiles[p].uid)] = AsString(userFiles[p].name)
         ELSE \E m \in serial : m.tag = "WARN"

\* ---- the fields of a ledger line ----
QuoteCount(t) == Cardinality({i \in 1..Len(t) : t[i] = QUOTE})
\* the field is the value wrapped in quotes, with each inner quote doubled
QuotedAs(f, value) ==
  /\ CsvIsQuoted(f)
  /\ QuoteCount(f) = 2 + 2 * QuoteCount(value)
  /\ CsvUndouble(SubSeq(f, 2, Len(f) - 1)) = value

\* the values logAttendance was given for the line of scan n
RowValues(n) == <<nowTimestamp(scans[n].at), scans[n].uid, scans[n].name, RFID>>

C17_NoInterleaving ==
  /\ hpc = "store" => pc = "idle"
  /\ \A n \in 1..Len(scans) : ~scans[n].raced

\* C18: the broadcast of a scan carries the timestamp, the uid and the name of
\* the scan's ledger line.
C18_SameEvent ==
  \A n \in 1..Len(scans) :
    \A i \in RowsOf(n), j \in BroadcastsOf(n) :
      /\ broadcasts[j].timestamp = JStr(CsvField(ledger.lines[i].text, 1))
      /\ broadcasts[j].uid = JStr(CsvField(ledger.lines[i].text, 2))
      /\ broadcasts[j].name = JStr(CsvField(ledger.lines[i].text, 3))

\* the form uidFromMfrc produces: two uppercase hexadecimal digits per byte
IsCanonical(k) ==
  /\ Len(k) > 0
  /\ Len(k) % 2 = 0
  /\ \A i \in 1..Len(k) : \E d \in 1..16 : k[i] = HexDigits[d]

\* C19: every key of userCache is an identifier in the form uidFromMfrc
\* produces.
C19_CanonicalKeys ==
  \A k \in DOMAIN userCache : IsCanonical(k)

\* the number a decimal text denotes
RECURSIVE DecValue(_)
DecValue(t) ==
  IF t = <<>> THEN 0
  ELSE 10 * DecValue(SubSeq(t, 1, Len(t) - 1))
       + (CHOOSE d \in 0..9 : DecDigits[d + 1] = t[Len(t)])

\* C20: down the ledger the timestamps of the event lines never decrease, and
\* neither do the timestamps of the broadcasts in the order they were sent.
C20_TimestampsMonotonic ==
  /\ \A i \in EventRows, j \in EventRows :
       i < j => DecValue(CsvField(ledger.lines[i].text, 1))
                  <= DecValue(CsvField(ledger.lines[j].text, 1))
  /\ \A i \in 1..Len(broadcasts), j \in 1..Len(broadcasts) :
       i < j => DecValue(AsString(broadcasts[i].timestamp))
                  <= DecValue(AsString(broadcasts[j].timestamp))
====
